---- MODULE Spec2Model ----
(***************************************************************************)
(* Model of the pin-macros construction protocol (src/src/lib.rs):         *)
(* pin_new, pin_init (with its local pin_init_clone and pin_init_field),   *)
(* pin_field_init (both rules), field_pin and field_unpin.                 *)
(*                                                                         *)
(* Memory is a map from addresses to cells.  The macros are instantiated   *)
(* on two composite types, the ones of the specification's scenarios:      *)
(*   Outer { id: i32, self_ref: Option<&mut i32>, sub: Inner,              *)
(*           opt: Option<Inner> }                                          *)
(*   Inner { val: i32, me: *const i32 }      (me points at its own val)    *)
(* The body of Outer::init is caller code: it is modelled as any sequence  *)
(* of the protocol's steps, each direct write taken at most once.          *)
(***************************************************************************)
EXTENDS Integers, FiniteSets, Sequences, TLC

\* ---------------------------------------------------------------- bounds
\* How often a body repeats one kind of protocol step.
MaxRepeat == 2
\* How many times a body invokes pin_init_clone!().
MaxClones == 1
\* How many accessor calls and writes follow construction.
MaxCalls == 2

\* ------------------------------------------------------- inputs and layout
Vals == {42, 7}
\* The calls checked: an argument and the frame slot the object lands in.
Calls == {<<42, 16>>, <<7, 32>>}
Methods == {"init", "create"}
Types == {"Outer", "Inner"}

\* Where a replacement value moved in from outside was built.
ScratchAddr == 64

Fields(ty) == IF ty = "Outer" THEN {"id", "self_ref", "sub", "opt"} ELSE {"val", "me"}

\* Fields the accessors must keep address-stable: the owned immovable ones.
PinnedFields(ty) == IF ty = "Outer" THEN {"sub", "opt"} ELSE {}

Off(ty, f) ==
    IF ty = "Outer"
    THEN CASE f = "id" -> 0 [] f = "self_ref" -> 1 [] f = "sub" -> 2 [] OTHER -> 4
    ELSE CASE f = "val" -> 0 [] OTHER -> 1

SizeOf(ty) == IF ty = "Outer" THEN 7 ELSE 2

\* Option<Inner>: one discriminant cell, then the payload.
PayloadOff == 1

\* ------------------------------------------------------------------ cells
\* A cell holds a kind k, a value v and w, the number of raw writes it took.
Fresh == [k |-> "uninit", v |-> 0, w |-> 0]
IntCell(n) == <<"int", n>>
PtrCell(a) == <<"ptr", a>>
NoneCell == <<"none", 0>>
SomeCell(a) == <<"some", a>>

Range(a, n) == a .. (a + n - 1)

Load(m, a) == IF a \in DOMAIN m THEN m[a] ELSE Fresh

Val(m, a) == <<Load(m, a).k, Load(m, a).v>>

\* One raw write of value c to cell a.
WriteCell(m, a, c) ==
    IF a \in DOMAIN m
    THEN [m EXCEPT ![a] = [k |-> c[1], v |-> c[2], w |-> @.w + 1]]
    ELSE m

\* Cell a no longer holds a value; nothing is written to it.
Invalidate(m, a) ==
    IF a \in DOMAIN m THEN [m EXCEPT ![a] = [k |-> "uninit", v |-> 0, w |-> @.w]] ELSE m

VARIABLES
    pc,          \* "start", "uninit" (slot pinned), "body" (inside init), "done"
    objTy,       \* $vart of pin_new
    mutBinding,  \* TRUE for the `mut $varn` rule of pin_new
    callsite,    \* the call pin_new makes: [named, invoked], until it is entered
    arg,         \* the argument handed to the construction routine
    needsDrop,   \* whether Inner has drop glue
    slot,        \* address of the pinned MaybeUninit<$vart>
    uninit_ptr,  \* __uninit_ptr: Pin<&mut MaybeUninit<Self>>
    init_ptr,    \* __init_ptr: *mut Self
    this,        \* $this: &mut Self
    result,      \* the Pin<&mut Self> returned by init
    mem,         \* the slot's cells
    handles,     \* handles the body obtained: [kind, addr, ty, n]
    nclones,     \* pin_init_clone!() invocations
    ops,         \* how often the body took each kind of step
    wby,         \* <<address, step>>: which step wrote which cell
    uread,       \* <<address, step>>: reads of a cell never written
    overwritten, \* <<field, kind>>: what a deferred resolution overwrote
    obs,         \* <<field, accessor, address>>: what accessors returned
    replaced,    \* fields assigned a whole new value after construction
    calls,       \* accessor calls and writes after construction
    consumed     \* the initialized handle was moved into an accessor call

vars == <<pc, objTy, mutBinding, callsite, arg, needsDrop, slot, uninit_ptr,
          init_ptr, this, result, mem, handles, nclones, ops, wby,
          uread, overwritten, obs, replaced, calls, consumed>>

NoCall == [named |-> "none", invoked |-> "none"]

OpKinds == {"assign", "mark_self_ref", "mark_opt", "resolve_self_ref", "resolve_opt",
            "view_sub", "construct_sub", "body_inner"}

Init ==
    /\ pc = "start"
    /\ objTy = "none"
    /\ mutBinding = FALSE
    /\ callsite = NoCall
    /\ arg = 0
    /\ needsDrop \in BOOLEAN
    /\ slot = 0
    /\ uninit_ptr = 0
    /\ init_ptr = 0
    /\ this = 0
    /\ result = 0
    /\ mem = [a \in {} |-> Fresh]
    /\ handles = {}
    /\ nclones = 0
    /\ ops = [o \in OpKinds |-> 0]
    /\ wby = {}
    /\ uread = {}
    /\ overwritten = {}
    /\ obs = {}
    /\ replaced = {}
    /\ calls = 0
    /\ consumed = FALSE

ghosts == <<wby, uread, overwritten>>
ptrs == <<callsite, slot, uninit_ptr, init_ptr, this, result>>
call == <<objTy, mutBinding, arg, needsDrop>>
post == <<obs, replaced, calls, consumed>>

\* ------------------------------------------------------------ pin_new
\* pin!(__uninit): the pinned handle refers to the reserved slot.
PinMacro(s) == s

\* The associated function pin_new calls on the pinned handle.
CalledMethod(m) == "init"

\* pin_new!: reserve the slot, pin it, call the construction routine.  Both
\* rules expand to the same three statements; only the binding differs.
PinNew(isMut, vart, m, a, s) ==
    /\ pc = "start"
    /\ pc' = "uninit"
    /\ objTy' = vart
    /\ mutBinding' = isMut
    /\ callsite' = [named |-> m, invoked |-> CalledMethod(m)]
    /\ arg' = a
    /\ slot' = s
    /\ mem' = [x \in Range(s, SizeOf(vart)) |-> Fresh]
    /\ uninit_ptr' = PinMacro(s)
    /\ UNCHANGED <<needsDrop, init_ptr, this, result, handles, nclones, ops,
                   wby, uread, overwritten, obs, replaced, calls, consumed>>

\* ------------------------------------------------------------ pin_init
\* Mutant of AsMutPtr: the pointer to a temporary copy of the slot.
AsMutPtrOfTemporary(h) == ScratchAddr

\* __uninit_ptr.as_mut().get_unchecked_mut().as_mut_ptr()
AsMutPtr(h) == h

\* let $this = unsafe { &mut *__init_ptr };
ThisRef(p) == p

\* Pin::new_unchecked($this)
NewUnchecked(r) == r

\* Entry of the generated routine: the raw pointer and the `this` binding.
PinInitEnter ==
    /\ pc = "uninit"
    /\ pc' = "body"
    /\ callsite' = NoCall
    /\ init_ptr' = AsMutPtr(uninit_ptr)
    /\ this' = ThisRef(AsMutPtr(uninit_ptr))
    /\ UNCHANGED <<call, slot, uninit_ptr, result, mem, handles, nclones, ops,
                   ghosts, post>>

\* Whether the body has run: Inner::init's body is one step.
BodyMayEnd == objTy = "Inner" => ops["body_inner"] = 1

\* The generated routine returns the pinned handle.
PinInitReturn ==
    /\ pc = "body"
    /\ BodyMayEnd
    /\ pc' = "done"
    /\ result' = NewUnchecked(this)
    /\ UNCHANGED <<call, callsite, slot, uninit_ptr, init_ptr, this, mem, handles,
                   nclones, ops, ghosts, post>>

\* -------------------------------------------------------- the init bodies
Count(o) == [ops EXCEPT ![o] = @ + 1]

\* The body of Inner::init(this, v): this.val = v; this.me = &this.val.
InnerCells(a) == {a + Off("Inner", "val"), a + Off("Inner", "me")}

InnerInit(m, a, v) ==
    WriteCell(WriteCell(m, a + Off("Inner", "val"), IntCell(v)),
              a + Off("Inner", "me"), PtrCell(a + Off("Inner", "val")))

\* A step of Outer::init's body.  The body writes a field directly once; it
\* may repeat a deferred resolution.
BodyStep(o) == pc = "body" /\ objTy = "Outer" /\ ops[o] < 1

DeferredStep(o) == pc = "body" /\ objTy = "Outer" /\ ops[o] < MaxRepeat

\* Inner::init's body, run on the routine's own `this`.
BodyInner ==
    /\ pc = "body"
    /\ objTy = "Inner"
    /\ ops["body_inner"] = 0
    /\ mem' = InnerInit(mem, this, arg)
    /\ ops' = Count("body_inner")
    /\ wby' = wby \cup {<<x, "body_inner">> : x \in InnerCells(this)}
    /\ UNCHANGED <<pc, call, ptrs, handles, nclones, uread, overwritten, post>>

\* Direct field assignment in Outer::init's body: this.id = arg.
AssignId ==
    /\ BodyStep("assign")
    /\ mem' = WriteCell(mem, this + Off("Outer", "id"), IntCell(arg))
    /\ ops' = Count("assign")
    /\ wby' = wby \cup {<<this + Off("Outer", "id"), "assign">>}
    /\ UNCHANGED <<pc, call, ptrs, handles, nclones, uread, overwritten, post>>

MarkKey(f) == IF f = "self_ref" THEN "mark_self_ref" ELSE "mark_opt"

\* Primary construction marks a deferred field Absent: a raw write of None.
MarkAbsent(f) ==
    /\ BodyStep(MarkKey(f))
    /\ mem' = WriteCell(mem, this + Off("Outer", f), NoneCell)
    /\ ops' = Count(MarkKey(f))
    /\ wby' = wby \cup {<<this + Off("Outer", f), MarkKey(f)>>}
    /\ UNCHANGED <<pc, call, ptrs, handles, nclones, uread, overwritten, post>>

\* Mutant of PinInitCloneAddr: a handle to a clone of the object itself.
PinInitCloneOfCopy(p) == ScratchAddr

\* pin_init_clone!(): Pin::new_unchecked(&mut *__init_ptr)
PinInitCloneAddr(p) == p

PinInitClone ==
    /\ pc = "body"
    /\ objTy = "Outer"
    /\ nclones < MaxClones
    /\ nclones' = nclones + 1
    /\ handles' = handles \cup
          {[kind |-> "clone", addr |-> PinInitCloneAddr(init_ptr), ty |-> "Outer",
            n |-> nclones + 1]}
    /\ UNCHANGED <<pc, call, ptrs, mem, ops, ghosts, post>>

\* transmute_maybe_uninit: the same reference, retyped.
TransmuteMaybeUninit(a) == a

\* Mutant of PinInitFieldAddr: the projection to the field is left out.
PinInitFieldWhole(p, f) == TransmuteMaybeUninit(p)

\* pin_init_field!(f: F): Pin::new_unchecked(transmute_maybe_uninit(&mut (*__init_ptr).f))
PinInitFieldAddr(p, f) == TransmuteMaybeUninit(p + Off("Outer", f))

PinInitField(f) ==
    /\ BodyStep("view_sub")
    /\ ops' = Count("view_sub")
    /\ handles' = handles \cup
          {[kind |-> "field", addr |-> PinInitFieldAddr(init_ptr, f), ty |-> "Inner",
            n |-> 0]}
    /\ UNCHANGED <<pc, call, ptrs, mem, nclones, ghosts, post>>

\* The body hands the nested view to the field's own construction routine.
ConstructNested ==
    /\ BodyStep("construct_sub")
    /\ \E h \in handles :
        /\ h.kind = "field"
        /\ mem' = InnerInit(mem, h.addr, arg)
        /\ handles' = handles \ {h}
        /\ wby' = wby \cup {<<x, "construct_sub">> : x \in InnerCells(h.addr)}
    /\ ops' = Count("construct_sub")
    /\ UNCHANGED <<pc, call, ptrs, nclones, uread, overwritten, post>>

\* ------------------------------------------------------- pin_field_init
\* &mut $this.as_mut().get_unchecked_mut().$fieldn as *mut Option<$fieldt>
FieldPtr(p, f) == p + Off("Outer", f)

\* *__field_ptr = Some(uninit): the assignment drops the previous contents
\* when the type has drop glue, then stores the discriminant; the payload
\* holds no value yet.
StoreSomeUninit(m, fp) ==
    Invalidate(Invalidate(WriteCell(m, fp, SomeCell(0)), fp + PayloadOff),
               fp + PayloadOff + 1)

\* Rule 1: a deferred field of owned immovable type.
PinFieldInitOwned(f) ==
    /\ DeferredStep("resolve_opt")
    /\ \E h \in handles :
        /\ h.kind = "clone"
        /\ LET fp == FieldPtr(h.addr, f)
               old == Load(mem, fp)
               payload == TransmuteMaybeUninit(fp + PayloadOff)
           IN /\ mem' = InnerInit(StoreSomeUninit(mem, fp), payload, arg)
              /\ uread' = uread \cup
                    (IF needsDrop /\ old.k = "uninit" THEN {<<fp, "resolve_opt">>} ELSE {})
              /\ overwritten' = overwritten \cup {<<f, old.k>>}
              /\ wby' = wby \cup {<<x, "resolve_opt">> : x \in {fp} \cup InnerCells(payload)}
    /\ ops' = Count("resolve_opt")
    /\ UNCHANGED <<pc, call, ptrs, handles, nclones, post>>

\* Mutant of SelfRefValue: the reference is taken to a copy of the source.
SelfRefToTemporary(tp, src) == SomeCell(ScratchAddr)

\* $fieldv of scenario 1: the reference bound to $srcfield, stored as Some.
SelfRefValue(tp, src) == SomeCell(tp + Off("Outer", src))

\* Mutant of ReplaceStore: take() the field, then assign it.
ReplaceStoreViaTake(m, dp, c) == WriteCell(WriteCell(m, dp, NoneCell), dp, c)

\* Option::replace stores the new value with one write of the field.
ReplaceStore(m, dp, c) == WriteCell(m, dp, c)

\* Rule 2: __dst_ptr.replace($fieldv) reads the previous contents, stores the
\* new value and yields the previous one.
PinFieldInitSelf(src, dst) ==
    /\ DeferredStep("resolve_self_ref")
    /\ \E h \in handles :
        /\ h.kind = "clone"
        /\ LET tp == h.addr
               dp == tp + Off("Outer", dst)
               old == Load(mem, dp)
           IN /\ mem' = ReplaceStore(mem, dp, SelfRefValue(tp, src))
              /\ uread' = uread \cup
                    (IF old.k = "uninit" THEN {<<dp, "resolve_self_ref">>} ELSE {})
              /\ overwritten' = overwritten \cup {<<dst, old.k>>}
              /\ wby' = wby \cup {<<dp, "resolve_self_ref">>}
    /\ ops' = Count("resolve_self_ref")
    /\ UNCHANGED <<pc, call, ptrs, handles, nclones, post>>

\* ------------------------------------------------ field_pin, field_unpin
\* Mutant of MapUncheckedMut: every call projects from a new copy of the object.
MapThroughCopy(self, f) == ScratchAddr + SizeOf(objTy) * calls + Off(objTy, f)

\* self.map_unchecked_mut(|this| &mut this.$name)
MapUncheckedMut(self, f) == self + Off(objTy, f)

\* A non-mut binding cannot be reborrowed: the call moves the handle.
MayCall == pc = "done" /\ calls < MaxCalls /\ ~consumed

FieldPin(f) ==
    /\ MayCall
    /\ f \in Fields(objTy)
    /\ obs' = obs \cup {<<f, "pin", MapUncheckedMut(result, f)>>}
    /\ calls' = calls + 1
    /\ consumed' = ~mutBinding
    /\ UNCHANGED <<pc, call, ptrs, mem, handles, nclones, ops, ghosts, replaced>>

FieldUnpin(f) ==
    /\ MayCall
    /\ f \in Fields(objTy)
    /\ obs' = obs \cup {<<f, "unpin", MapUncheckedMut(result, f)>>}
    /\ calls' = calls + 1
    /\ consumed' = ~mutBinding
    /\ UNCHANGED <<pc, call, ptrs, mem, handles, nclones, ops, ghosts, replaced>>

\* The value a caller moves into field f through a plain &mut.
Replacement(m, a, f, v) ==
    CASE f \in {"id", "val"} -> WriteCell(m, a, IntCell(v))
      [] f \in {"self_ref", "opt"} -> WriteCell(m, a, NoneCell)
      [] f = "me" -> WriteCell(m, a, PtrCell(ScratchAddr))
      [] OTHER -> WriteCell(WriteCell(m, a + Off("Inner", "val"), IntCell(v)),
                            a + Off("Inner", "me"), PtrCell(ScratchAddr))

\* *obj.f() = value, through the &mut that field_unpin returned.
AssignThrough(f, v) ==
    /\ pc = "done"
    /\ calls < MaxCalls
    /\ \E o \in obs :
        /\ o[1] = f
        /\ o[2] = "unpin"
        /\ mem' = Replacement(mem, o[3], f, v)
        /\ wby' = wby \cup {<<o[3], "assign_through">>}
    /\ replaced' = replaced \cup {f}
    /\ calls' = calls + 1
    /\ UNCHANGED <<pc, call, ptrs, handles, nclones, ops, uread, overwritten,
                   obs, consumed>>

Next ==
    \/ \E isMut \in BOOLEAN, vart \in Types, m \in Methods, c \in Calls :
          PinNew(isMut, vart, m, c[1], c[2])
    \/ PinInitEnter
    \/ BodyInner
    \/ AssignId
    \/ \E f \in {"self_ref", "opt"} : MarkAbsent(f)
    \/ PinInitClone
    \/ \E f \in {"sub"} : PinInitField(f)
    \/ ConstructNested
    \/ \E f \in {"opt"} : PinFieldInitOwned(f)
    \/ \E src \in {"id"}, dst \in {"self_ref"} : PinFieldInitSelf(src, dst)
    \/ PinInitReturn
    \/ \E f \in {"id", "self_ref", "sub", "opt", "val", "me"} : FieldPin(f)
    \/ \E f \in {"id", "self_ref", "sub", "opt", "val", "me"} : FieldUnpin(f)
    \/ \E f \in {"id", "self_ref", "sub", "opt", "val", "me"}, v \in Vals : AssignThrough(f, v)

Spec == Init /\ [][Next]_vars

\* ================================================================ claims
Constructing == pc \in {"body", "done"}

FieldAddr(f) == slot + Off(objTy, f)

\* C1: the handle the construction routine returns refers to the address of
\* the uninitialized handle it was given; obtaining the raw pointer, binding
\* `this`, running the body and re-wrapping all keep that address.
C1_SameAddressInAndOut ==
    /\ Constructing => init_ptr = uninit_ptr /\ this = uninit_ptr
    /\ pc = "done" => result = uninit_ptr

C1_Witness ==
    /\ pc = "done"
    /\ objTy = "Outer"
    /\ ops["resolve_self_ref"] = 1
    /\ ops["construct_sub"] = 1
    /\ result = 32

\* C2: after construction the object's address, and the address every accessor
\* returns for a field, are the same over any sequence of accessor calls.
C2_AddressStability ==
    pc = "done" =>
        /\ result = slot
        /\ \A o \in obs : o[3] = FieldAddr(o[1])
        /\ \A o1, o2 \in obs : o1[1] = o2[1] => o1[3] = o2[3]

C2_Witness ==
    /\ calls = 2
    /\ \E o1, o2 \in obs : o1[1] = "sub" /\ o2[1] = "sub" /\ o1[2] = "pin" /\ o2[2] = "unpin"

\* C3: a deferred field is resolved at most once per construction, and what a
\* resolution overwrites is never a previously resolved value (stated for the
\* bodies that mark the field Absent before resolving it).
C3_SingleResolution ==
    uread = {} =>
        /\ ops["resolve_self_ref"] <= 1
        /\ ops["resolve_opt"] <= 1
        /\ \A o \in overwritten : o[2] # "some"

\* C4: no field is read before it has been written; the deferred-field macros
\* never read or clean up the previous contents of a field never written.
C4_NoReadBeforeWrite == uread = {}

\* The mutable handles live while the body runs.
LiveHandles ==
    handles \cup
    (IF pc = "body" THEN {[kind |-> "this", addr |-> this, ty |-> objTy, n |-> 0]} ELSE {})

Overlap(h1, h2) == Range(h1.addr, SizeOf(h1.ty)) \cap Range(h2.addr, SizeOf(h2.ty)) # {}

WholeHandles == {h \in LiveHandles : h.kind \in {"this", "clone"}}

\* C5 as stated: during construction no two live mutable handles refer to
\* overlapping storage.
C5_SingleHandle ==
    pc = "body" => \A h1, h2 \in LiveHandles : h1 # h2 => ~Overlap(h1, h2)

\* C5 as amended: during construction the handles to the whole object are
\* `this` and one more per pin_init_clone!() invocation, all at the address of
\* the handle the routine was given, and every other handle the protocol
\* yields lies inside that object's storage.
C5_HandlesAliasOneSlot ==
    pc = "body" =>
        /\ Cardinality(WholeHandles) = 1 + nclones
        /\ \A h \in WholeHandles : h.addr = uninit_ptr /\ h.ty = objTy
        /\ \A h \in LiveHandles :
              Range(h.addr, SizeOf(h.ty)) \subseteq Range(slot, SizeOf(objTy))

C5_Witness ==
    /\ pc = "body"
    /\ nclones = 1
    /\ \E h \in handles : h.kind = "field"
    /\ ops["resolve_self_ref"] = 1

\* A construction that followed the protocol: every cell holds a value, no
\* cell was read before it was written, no deferred field was resolved twice.
Complete ==
    /\ pc = "done"
    /\ objTy = "Outer"
    /\ calls = 0
    /\ uread = {}
    /\ ops["resolve_self_ref"] <= 1
    /\ ops["resolve_opt"] <= 1
    /\ \A a \in DOMAIN mem : mem[a].k # "uninit"

\* C6 as stated: a construction writes every field exactly once.
C6_OneWritePerField == Complete => \A a \in DOMAIN mem : mem[a].w = 1

\* The writes the body's own steps ask for, per field of Outer.
Asked(f) ==
    CASE f = "id" -> ops["assign"]
      [] f = "self_ref" -> ops["mark_self_ref"] + ops["resolve_self_ref"]
      [] f = "sub" -> ops["construct_sub"]
      [] OTHER -> ops["mark_opt"] + ops["resolve_opt"]

\* C6 as amended: a construction writes a plain or nested field once and a
\* deferred field once per protocol step applied to it, twice when it is
\* marked Absent and then resolved; every cell takes exactly the writes the
\* body's steps ask for, and accessor calls add none.
C6_WritesAsAsked ==
    (Constructing /\ objTy = "Outer" /\ replaced = {}) =>
        /\ \A f \in Fields("Outer") : Load(mem, FieldAddr(f)).w = Asked(f)
        /\ Load(mem, FieldAddr("sub") + 1).w = ops["construct_sub"]
        /\ Load(mem, FieldAddr("opt") + PayloadOff).w = ops["resolve_opt"]
        /\ Load(mem, FieldAddr("opt") + PayloadOff + 1).w = ops["resolve_opt"]
        /\ (Complete /\ ops["resolve_self_ref"] = 1 => Load(mem, FieldAddr("self_ref")).w = 2)

C6_Witness ==
    /\ pc = "done"
    /\ objTy = "Outer"
    /\ calls = 2
    /\ replaced = {}
    /\ uread = {}
    /\ \A a \in DOMAIN mem : mem[a].k # "uninit"
    /\ Load(mem, FieldAddr("self_ref")).w = 2
    /\ Load(mem, FieldAddr("opt")).w = 2

\* C7: in scenario 1 the value self_ref holds after construction is the
\* address the id accessor returns, reading through it gives id's value (42),
\* and accessor calls do not change that.
C7_SelfReference ==
    (pc = "done" /\ objTy = "Outer" /\ "self_ref" \notin replaced
       /\ Load(mem, FieldAddr("self_ref")).k = "some") =>
        LET a == Load(mem, FieldAddr("self_ref")).v
        IN /\ a = MapUncheckedMut(result, "id")
           /\ \A o \in obs : o[1] = "id" => o[3] = a
           /\ (ops["assign"] = 1 /\ "id" \notin replaced) => Val(mem, a) = IntCell(arg)

C7_Witness ==
    /\ pc = "done"
    /\ arg = 42
    /\ calls = 2
    /\ uread = {}
    /\ Val(mem, FieldAddr("self_ref")) = SomeCell(FieldAddr("id"))
    /\ Val(mem, FieldAddr("id")) = IntCell(42)
    /\ \E o1, o2 \in obs : o1[1] = "id" /\ o2[1] = "self_ref"

\* The state of an Inner at address a, with its pointer taken relative to a.
InnerState(m, a) == <<Val(m, a), Load(m, a + 1).k, Load(m, a + 1).v - a>>

\* What Inner::init(handle, v) establishes.
InnerConstructed(v) == <<IntCell(v), "ptr", Off("Inner", "val")>>

\* C8: the nested view is at the address of the field inside the parent, the
\* address the field's accessor returns; constructing Inner on it leaves the
\* state a standalone construction with the same argument leaves, and writes
\* nothing of the parent outside that field.  The same holds of the construct
\* that pin_field_init's first rule runs on the payload of an Option field.
C8_NestedConstruction ==
    /\ \A h \in handles : h.kind = "field" => h.addr = MapUncheckedMut(slot, "sub")
    /\ \A w \in wby : w[2] = "construct_sub" =>
          /\ w[1] \in Range(MapUncheckedMut(slot, "sub"), SizeOf("Inner"))
          /\ \A o \in obs : o[1] = "sub" => w[1] \in Range(o[3], SizeOf("Inner"))
    /\ (objTy = "Outer" /\ ops["construct_sub"] = 1 /\ "sub" \notin replaced) =>
          InnerState(mem, FieldAddr("sub")) = InnerConstructed(arg)
    /\ (objTy = "Inner" /\ ops["body_inner"] = 1 /\ replaced = {}) =>
          InnerState(mem, slot) = InnerConstructed(arg)
    /\ \A w \in wby : w[2] = "resolve_opt" =>
          w[1] \in Range(MapUncheckedMut(slot, "opt"), PayloadOff + SizeOf("Inner"))
    /\ (objTy = "Outer" /\ ops["resolve_opt"] >= 1 /\ "opt" \notin replaced) =>
          InnerState(mem, FieldAddr("opt") + PayloadOff) = InnerConstructed(arg)

C8_Witness ==
    /\ pc = "done"
    /\ objTy = "Outer"
    /\ ops["construct_sub"] = 1
    /\ replaced = {}
    /\ InnerState(mem, FieldAddr("sub")) = InnerConstructed(7)
    /\ \E o \in obs : o[1] = "sub" /\ o[2] = "pin"

C10_CallsNamedMethod ==
    pc = "uninit" =>
        /\ callsite.invoked = callsite.named
        /\ uninit_ptr = slot
        /\ \A a \in DOMAIN mem : mem[a].k = "uninit"

====
